---- MODULE Spec2Model ----
(***************************************************************************)
(* The loan-assessment wizard of app.py: a Streamlit script that is run    *)
(* from top to bottom once per user event.  The state is what survives a   *)
(* script run (st.session_state, the objects cached by load_artifacts),    *)
(* what the run rendered (the page) and which calls the run made to the    *)
(* unpickled encoders and classifier.  Every action is one whole script    *)
(* run.                                                                    *)
(*                                                                         *)
(* Strings are sequences of character codes, so that str.strip, equality   *)
(* and lexicographic order are computed and not assumed.                    *)
(***************************************************************************)
EXTENDS Integers, Sequences, FiniteSets, TLC

----------------------------------------------------------------------------
(* String literals of the script *)

\* "Graduate"
Graduate == <<71, 114, 97, 100, 117, 97, 116, 101>>
\* "Not Graduate"
NotGraduate == <<78, 111, 116, 32>> \o Graduate
\* "No"
No == <<78, 111>>
\* "Yes"
Yes == <<89, 101, 115>>
\* "Approved"
Approved == <<65, 112, 112, 114, 111, 118, 101, 100>>
\* "Rejected" (the word of the red banner; the script never compares with it)
Rejected == <<82, 101, 106, 101, 99, 116, 101, 100>>
\* "Salaried"
Salaried == <<83, 97, 108, 97, 114, 105, 101, 100>>
\* "Self-Employed"
SelfEmployed == <<83, 101, 108, 102, 45, 69, 109, 112, 108, 111, 121, 101, 100>>

\* The characters str.strip() removes (the ASCII ones)
Whitespace == {9, 10, 11, 12, 13, 28, 29, 30, 31, 32}

RECURSIVE LStrip(_)
LStrip(s) ==
    IF s = <<>> THEN s
    ELSE IF Head(s) \in Whitespace THEN LStrip(Tail(s)) ELSE s

RECURSIVE RStrip(_)
RStrip(s) ==
    IF s = <<>> THEN s
    ELSE IF s[Len(s)] \in Whitespace THEN RStrip(SubSeq(s, 1, Len(s) - 1)) ELSE s

\* status.strip()
Strip(s) == RStrip(LStrip(s))

\* The labels the two radios of step 1 show for option x (format_func):
\* an emoji, a space, the words
FormatEducation(x) ==
    IF x = 0 THEN <<127891, 32>> \o Graduate ELSE <<128216, 32>> \o NotGraduate

FormatEmployed(x) ==
    IF x = 0 THEN <<128188, 32>> \o Salaried ELSE <<128640, 32>> \o SelfEmployed

\* edu_str
EduStrSwapped(education) == IF education = 0 THEN NotGraduate ELSE Graduate
EduStr(education) == IF education = 0 THEN Graduate ELSE NotGraduate

\* emp_str
EmpStr(employed) == IF employed = 0 THEN No ELSE Yes

----------------------------------------------------------------------------
(* The unpickled objects: two LabelEncoders, a target LabelEncoder and a   *)
(* classifier.  A LabelEncoder holds classes_, the sorted distinct labels   *)
(* it was fitted on.                                                        *)

RECURSIVE LexLess(_, _)
LexLess(a, b) ==
    IF b = <<>> THEN FALSE
    ELSE IF a = <<>> THEN TRUE
    ELSE IF Head(a) # Head(b) THEN Head(a) < Head(b)
    ELSE LexLess(Tail(a), Tail(b))

RECURSIVE SortLex(_)
SortLex(S) ==
    IF S = {} THEN <<>>
    ELSE LET m == CHOOSE x \in S : \A y \in S \ {x} : LexLess(x, y)
         IN  <<m>> \o SortLex(S \ {m})

\* A label as the training file held it when its whitespace was not cleaned
Padded(s) == <<32>> \o s

\* encoder.transform([s])[0]: the position of s in classes_, ValueError for a
\* label the encoder has not seen
TransformWithDefault(classes, s) ==
    IF \E i \in 1..Len(classes) : classes[i] = s
    THEN [ok |-> TRUE, code |-> (CHOOSE i \in 1..Len(classes) : classes[i] = s) - 1]
    ELSE [ok |-> TRUE, code |-> 0]
Transform(classes, s) ==
    IF \E i \in 1..Len(classes) : classes[i] = s
    THEN [ok |-> TRUE, code |-> (CHOOSE i \in 1..Len(classes) : classes[i] = s) - 1]
    ELSE [ok |-> FALSE, code |-> -1]

\* target_encoder.inverse_transform(pred)[0]: classes_[pred], ValueError for
\* a class id outside 0..len(classes_)-1
InverseTransform(target, pred) ==
    IF pred \in 0..(Len(target.classes) - 1)
    THEN [ok |-> TRUE, label |-> target.classes[pred + 1]]
    ELSE [ok |-> FALSE, label |-> <<>>]

\* feature_encoders.pkl fitted on cleaned columns
CleanEncoders ==
    [education |-> SortLex({Graduate, NotGraduate}),
     self_employed |-> SortLex({No, Yes})]

\* feature_encoders.pkl as it may have been produced: fitted on cleaned
\* columns, or with one column left uncleaned
EncoderTables ==
    { CleanEncoders,
      [education |-> SortLex({Padded(Graduate), Padded(NotGraduate)}),
       self_employed |-> SortLex({No, Yes})],
      [education |-> SortLex({Graduate, NotGraduate}),
       self_employed |-> SortLex({Padded(No), Padded(Yes)})] }

\* feature_encoders = None
NoEncoders == [education |-> <<>>, self_employed |-> <<>>]

\* "Pending"
Pending == <<80, 101, 110, 100, 105, 110, 103>>

\* target_encoder.pkl fitted on the cleaned loan_status column
CleanTarget == [strings |-> TRUE, classes |-> SortLex({Approved, Rejected})]

\* target_encoder.pkl: string labels (cleaned, uncleaned, with a third
\* class) or labels that are not strings (a target column of 0/1)
TargetTables ==
    { CleanTarget,
      [strings |-> TRUE, classes |-> SortLex({Padded(Approved), Padded(Rejected)})],
      [strings |-> TRUE, classes |-> SortLex({Approved, Pending, Rejected})],
      [strings |-> FALSE, classes |-> <<<<48>>, <<49>>>>] }

\* target_encoder = None
NoTarget == [strings |-> FALSE, classes |-> <<>>]

\* The largest class id model.predict returns here
MaxClassId == 2

\* What model.predict may do: raise, or return a class id
PredictOutcomes ==
    {[raises |-> TRUE, value |-> 0]} \cup {[raises |-> FALSE, value |-> c] : c \in 0..MaxClassId}

\* Probabilities are counted in units of 1/ProbScale
ProbScale == 100 * 100

\* What model.predict_proba may do: raise, return one row of class
\* probabilities, or return something np.max cannot use (here: no entries)
ProbaRows ==
    { <<5000, 5000>>, <<3333, 6667>>, <<10000, 0>>, <<2000, 3000, 5000>>, <<>> }

ProbaOutcomes ==
    {[raises |-> TRUE, value |-> <<>>]} \cup {[raises |-> FALSE, value |-> r] : r \in ProbaRows}

\* np.max(prob); ValueError on an array without entries
NpMaxFirst(prob) == prob[1]
NpMax(prob) == CHOOSE m \in {prob[i] : i \in 1..Len(prob)} : \A i \in 1..Len(prob) : prob[i] <= m

\* f"{conf:.1f}": conf (percent, in units of 1/ProbScale) rounded half-to-even
\* to tenths of a percent
FormatOneDecimal(conf) ==
    LET q == (conf * 10) \div ProbScale
        r == (conf * 10) % ProbScale
    IN  IF 2 * r > ProbScale \/ (2 * r = ProbScale /\ q % 2 = 1) THEN q + 1 ELSE q

----------------------------------------------------------------------------
(* load_artifacts *)

FileStates == {"ok", "absent", "unreadable"}

\* open() and pickle.load() of the three files in the order of the script:
\* the first FileNotFoundError ends the load with (None, None, None), any
\* other exception leaves the function
LoadArtifacts(files, encoders, target) ==
    LET first == IF files.model # "ok" THEN files.model
                 ELSE IF files.encoders # "ok" THEN files.encoders
                 ELSE files.target
    IN  [state |-> CASE first = "ok" -> "loaded"
                     [] first = "absent" -> "unavailable"
                     [] OTHER -> "raised",
         encoders |-> IF first = "ok" THEN encoders ELSE NoEncoders,
         target |-> IF first = "ok" THEN target ELSE NoTarget]

\* The disks the script is started on: at most one file damaged, or the
\* first two damaged in different ways
FileConfigs ==
    {f \in [model : FileStates, encoders : FileStates, target : FileStates] :
        \/ Cardinality({k \in DOMAIN f : f[k] # "ok"}) <= 1
        \/ f.target = "ok" /\ {f.model, f.encoders} = {"absent", "unreadable"}}

----------------------------------------------------------------------------
(* The state *)

VARIABLES
    files,      \* the three .pkl files on disk: "ok", "absent" or "unreadable"
    artifacts,  \* what load_artifacts gave: model, feature_encoders, target_encoder
    ss,         \* st.session_state
    radio,      \* the labels the two radios of step 1 showed as selected
    pending,    \* st.rerun() was called: the script is about to run again
    page,       \* what the last script run rendered
    run,        \* the calls the last script run made, and its locals
    inferences  \* runs of the inference block since the last click on Submit

vars == <<files, artifacts, ss, radio, pending, page, run, inferences>>

\* form_keys and their defaults; the step
InitialSession ==
    [step |-> 1, dependents |-> 0, education |-> 0, employed |-> 0,
     income |-> 5000000, bank_assets |-> 0, cibil |-> 700, residential |-> 0,
     commercial |-> 0, luxury |-> 0, loan_amt |-> 10000000, loan_term |-> 20]

\* session_state of a session whose every run ended at load_artifacts()
NoSession == [k \in {} |-> 0]

\* st.slider(label, lo, hi, value): the user picks a value of lo..hi
Slider(lo, hi, samples) == {v \in samples : lo <= v /\ v <= hi}

\* st.number_input(..., min_value=m): the user types an integer, not below m
\* if a minimum is given
NumberInput(mins, samples) == {v \in samples : \A m \in mins : v >= m}

\* The values the user tries in each widget; the widget refuses those outside
\* its range
DependentsInputs == Slider(0, 5, {-1, 0, 5, 6})
IncomeInputs == NumberInput({0}, {-100000, 0, 5000000})
BankAssetsInputs == NumberInput({0}, {-100000, 0, 100000})
CibilInputs == Slider(300, 900, {299, 300, 700, 901})
ResidentialInputs == NumberInput({}, {-100000, 0})
CommercialInputs == NumberInput({}, {0, 200000})
LuxuryInputs == NumberInput({}, {-300000, 0})
LoanAmtInputs == NumberInput({}, {-500000, 10000000})
LoanTermInputs == Slider(1, 30, {0, 20, 31})

\* The page of steps 1 to 4: no banner, no error, no metric
BlankPage == [banner |-> "none", error |-> "none", metric |-> -1]

\* A run that does not reach the inference block
NoRun ==
    [eduLookup |-> FALSE, eduArg |-> <<>>, empLookup |-> FALSE, empArg |-> <<>>,
     predict |-> FALSE, X |-> <<>>, proba |-> FALSE, prob |-> <<>>,
     decode |-> FALSE, hasStatus |-> FALSE, status |-> <<>>,
     raised |-> FALSE, conf |-> -1]

----------------------------------------------------------------------------
(* Step 5: the inference block *)

\* The columns of input_data, in the order of the dict that builds it
Columns ==
    <<"no_of_dependents", "education", "self_employed", "income_annum",
      "loan_amount", "loan_term", "cibil_score", "residential_assets_value",
      "commercial_assets_value", "luxury_assets_value", "bank_asset_value">>

\* input_data = pd.DataFrame({...}): one row, as <<column, value>> pairs
InputDataSwapped(s, edu_str, emp_str) ==
    << <<"no_of_dependents", s.dependents>>,
       <<"education", edu_str>>,
       <<"self_employed", emp_str>>,
       <<"income_annum", s.loan_amt>>,
       <<"loan_amount", s.income>>,
       <<"loan_term", s.loan_term>>,
       <<"cibil_score", s.cibil>>,
       <<"residential_assets_value", s.residential>>,
       <<"commercial_assets_value", s.commercial>>,
       <<"luxury_assets_value", s.luxury>>,
       <<"bank_asset_value", s.bank_assets>> >>
InputData(s, edu_str, emp_str) ==
    << <<"no_of_dependents", s.dependents>>,
       <<"education", edu_str>>,
       <<"self_employed", emp_str>>,
       <<"income_annum", s.income>>,
       <<"loan_amount", s.loan_amt>>,
       <<"loan_term", s.loan_term>>,
       <<"cibil_score", s.cibil>>,
       <<"residential_assets_value", s.residential>>,
       <<"commercial_assets_value", s.commercial>>,
       <<"luxury_assets_value", s.luxury>>,
       <<"bank_asset_value", s.bank_assets>> >>

\* input_data[column] = code
SetColumn(row, column, code) ==
    [i \in 1..Len(row) |-> IF row[i][1] = column THEN <<column, code>> ELSE row[i]]

\* The try block and its except handler, statement by statement.  predOut
\* and probaOut are what the classifier does in this run.  An exception
\* leaves on the page what was rendered before it, and adds the error.
InferenceBlock(s, art, predOut, probaOut) ==
    LET edu_str == EduStr(s.education)
        emp_str == EmpStr(s.employed)
        input_data == InputData(s, edu_str, emp_str)
        edu == Transform(art.encoders.education, edu_str)
        emp == Transform(art.encoders.self_employed, emp_str)
        X == SetColumn(SetColumn(input_data, "education", edu.code),
                       "self_employed", emp.code)
        dec == InverseTransform(art.target, predOut.value)
        failed == [BlankPage EXCEPT !.error = "exception"]
        r0 == [NoRun EXCEPT !.eduLookup = TRUE, !.eduArg = edu_str]
        r1 == [r0 EXCEPT !.empLookup = TRUE, !.empArg = emp_str]
        r2 == [r1 EXCEPT !.predict = TRUE, !.X = X]
        r3 == [r2 EXCEPT !.proba = TRUE]
        r4 == [r3 EXCEPT !.prob = probaOut.value, !.decode = TRUE]
        r5 == [r4 EXCEPT !.hasStatus = TRUE, !.status = dec.label]
        banner == IF Strip(dec.label) = Approved THEN "APPROVED" ELSE "REJECTED"
        shown == [BlankPage EXCEPT !.banner = banner]
        conf == NpMax(probaOut.value) * 100
    IN  IF ~edu.ok THEN [page |-> failed, run |-> [r0 EXCEPT !.raised = TRUE]]
        ELSE IF ~emp.ok THEN [page |-> failed, run |-> [r1 EXCEPT !.raised = TRUE]]
        ELSE IF predOut.raises THEN [page |-> failed, run |-> [r2 EXCEPT !.raised = TRUE]]
        ELSE IF probaOut.raises THEN [page |-> failed, run |-> [r3 EXCEPT !.raised = TRUE]]
        ELSE IF ~dec.ok THEN [page |-> failed, run |-> [r4 EXCEPT !.raised = TRUE]]
        \* status.strip() of a label that is no string: AttributeError
        ELSE IF ~art.target.strings
             THEN [page |-> failed, run |-> [r5 EXCEPT !.raised = TRUE]]
        \* the banner is on the page; np.max of a row without entries raises
        ELSE IF probaOut.value = <<>>
             THEN [page |-> [shown EXCEPT !.error = "exception"],
                   run |-> [r5 EXCEPT !.raised = TRUE]]
        ELSE [page |-> [shown EXCEPT !.metric = FormatOneDecimal(conf)],
              run |-> [r5 EXCEPT !.conf = conf]]

\* The branch of step 5 above the button: "Model not found" when model is
\* None, the inference block otherwise
Step5Results(s, art) ==
    IF art.state = "unavailable"
    THEN {[page |-> [BlankPage EXCEPT !.error = "model_not_found"], run |-> NoRun]}
    ELSE {InferenceBlock(s, art, predOut, probaOut) :
              predOut \in PredictOutcomes, probaOut \in ProbaOutcomes}

\* Whether the step-5 branch of this run enters the inference block
Infers(art) == IF art.state = "unavailable" THEN 0 ELSE 1

----------------------------------------------------------------------------
(* Navigation *)

next_step(s) == [s EXCEPT !.step = @ + 1]
prev_step(s) == [s EXCEPT !.step = @ - 1]
restart(s) == [s EXCEPT !.step = 1]

\* The buttons each step's branch renders
ButtonsWithBackOnStep1(step) ==
    CASE step = 1 -> {"Continue", "Back"}
      [] step \in {2, 3} -> {"Back", "Next"}
      [] step = 4 -> {"Back", "Submit"}
      [] step = 5 -> {"StartNew"}
      [] OTHER -> {}
Buttons(step) ==
    CASE step = 1 -> {"Continue"}
      [] step \in {2, 3} -> {"Back", "Next"}
      [] step = 4 -> {"Back", "Submit"}
      [] step = 5 -> {"StartNew"}
      [] OTHER -> {}

\* The labels of the two radios for the selected options
RadioLabels(education, employed) ==
    [education |-> FormatEducation(education), employed |-> FormatEmployed(employed)]

----------------------------------------------------------------------------
(* The first script run of a session *)

\* The pickled objects of the three files, when all three can be read
PickledObjects ==
    {[encoders |-> e, target |-> CleanTarget] : e \in EncoderTables}
    \cup {[encoders |-> CleanEncoders, target |-> t] : t \in TargetTables}

Init ==
    /\ files \in FileConfigs
    /\ \E o \in PickledObjects : artifacts = LoadArtifacts(files, o.encoders, o.target)
    /\ ss = IF artifacts.state = "raised" THEN NoSession ELSE InitialSession
    /\ radio = IF artifacts.state = "raised"
               THEN [education |-> <<>>, employed |-> <<>>]
               ELSE RadioLabels(0, 0)
    /\ pending = FALSE
    /\ page = IF artifacts.state = "raised"
              THEN [BlankPage EXCEPT !.error = "unhandled_exception"]
              ELSE BlankPage
    /\ run = NoRun
    /\ inferences = 0

\* The script got past load_artifacts() and waits for the user
Idle == artifacts.state # "raised" /\ ~pending

\* A run of steps 1 to 4 that changes one field of the form
Edit(step, field, value) ==
    /\ Idle
    /\ ss.step = step
    /\ ss' = [ss EXCEPT ![field] = value]
    /\ page' = BlankPage
    /\ run' = NoRun
    /\ UNCHANGED <<files, artifacts, pending, inferences>>

\* A run that ends in a button's handler, which leaves the session as
\* `after`, and st.rerun()
Click(button, after) ==
    /\ Idle
    /\ button \in Buttons(ss.step)
    /\ ss' = after
    /\ pending' = TRUE
    /\ UNCHANGED <<files, artifacts, radio, page, run>>

----------------------------------------------------------------------------
(* Step 1 *)

SelectEducation ==
    \E v \in {0, 1} :
        /\ Edit(1, "education", v)
        /\ radio' = [radio EXCEPT !.education = FormatEducation(v)]

SelectEmployed ==
    \E v \in {0, 1} :
        /\ Edit(1, "employed", v)
        /\ radio' = [radio EXCEPT !.employed = FormatEmployed(v)]

SetDependents == \E v \in DependentsInputs : Edit(1, "dependents", v) /\ UNCHANGED radio

Continue == Click("Continue", next_step(ss)) /\ UNCHANGED inferences

(* Step 2 *)

SetIncome == \E v \in IncomeInputs : Edit(2, "income", v) /\ UNCHANGED radio

SetBankAssets == \E v \in BankAssetsInputs : Edit(2, "bank_assets", v) /\ UNCHANGED radio

SetCibil == \E v \in CibilInputs : Edit(2, "cibil", v) /\ UNCHANGED radio

(* Step 3 *)

SetResidential == \E v \in ResidentialInputs : Edit(3, "residential", v) /\ UNCHANGED radio

SetCommercial == \E v \in CommercialInputs : Edit(3, "commercial", v) /\ UNCHANGED radio

SetLuxury == \E v \in LuxuryInputs : Edit(3, "luxury", v) /\ UNCHANGED radio

(* Step 4 *)

SetLoanAmt == \E v \in LoanAmtInputs : Edit(4, "loan_amt", v) /\ UNCHANGED radio

SetLoanTerm == \E v \in LoanTermInputs : Edit(4, "loan_term", v) /\ UNCHANGED radio

\* "Back" and "Next Step" of steps 2 to 4
Back == Click("Back", prev_step(ss)) /\ UNCHANGED inferences

NextStep == Click("Next", next_step(ss)) /\ UNCHANGED inferences

\* "Submit Application"
Submit == Click("Submit", next_step(ss)) /\ inferences' = 0

(* Step 5 *)

\* "Start New Application": the run of the click goes through the step-5
\* branch from its top, and reaches the button after the inference block
StartNewApplication ==
    /\ Idle
    /\ "StartNew" \in Buttons(ss.step)
    /\ \E r \in Step5Results(ss, artifacts) : page' = r.page /\ run' = r.run
    /\ inferences' = inferences + Infers(artifacts)
    /\ ss' = restart(ss)
    /\ pending' = TRUE
    /\ UNCHANGED <<files, artifacts, radio>>

(* The run st.rerun() starts *)

\* Step 1 rendered again: the two radios, which have no key and no index,
\* come back with their first option
RerunStep1 ==
    /\ pending
    /\ ss.step = 1
    /\ ss' = [ss EXCEPT !.education = 0, !.employed = 0]
    /\ radio' = RadioLabels(0, 0)
    /\ pending' = FALSE
    /\ page' = BlankPage
    /\ run' = NoRun
    /\ UNCHANGED <<files, artifacts, inferences>>

\* Steps 2 to 4 rendered: every widget returns the session's value
RerunForm ==
    /\ pending
    /\ ss.step \in 2..4
    /\ pending' = FALSE
    /\ page' = BlankPage
    /\ run' = NoRun
    /\ UNCHANGED <<files, artifacts, ss, radio, inferences>>

\* Step 5 rendered after Submit
RerunStep5 ==
    /\ pending
    /\ ss.step = 5
    /\ \E r \in Step5Results(ss, artifacts) : page' = r.page /\ run' = r.run
    /\ inferences' = inferences + Infers(artifacts)
    /\ pending' = FALSE
    /\ UNCHANGED <<files, artifacts, ss, radio>>

Next ==
    \/ SelectEducation
    \/ SelectEmployed
    \/ SetDependents
    \/ Continue
    \/ SetIncome
    \/ SetBankAssets
    \/ SetCibil
    \/ SetResidential
    \/ SetCommercial
    \/ SetLuxury
    \/ SetLoanAmt
    \/ SetLoanTerm
    \/ Back
    \/ NextStep
    \/ Submit
    \/ StartNewApplication
    \/ RerunStep1
    \/ RerunForm
    \/ RerunStep5

Spec == Init /\ [][Next]_vars

----------------------------------------------------------------------------
(* Properties *)

\* The labels an encoder knows
Known(classes) == {classes[i] : i \in 1..Len(classes)}

\* The words of a radio label, after its emoji and space
Words(label) == SubSeq(label, 3, Len(label))

\* The value of column i of the row given to the classifier
Fed(i) == run.X[i][2]

\* C1: when the inference of step 5 fails (an encoder, predict,
\* predict_proba or the decoder raises, or the label or the probabilities
\* cannot be used), the page shows the error and no APPROVED or REJECTED
\* banner.
C1_NoBannerOnFailure ==
    run.raised => page.error = "exception" /\ page.banner = "none"

\* C2: when any of the three files is absent or unreadable, load_artifacts
\* does not raise and gives (None, None, None); step 5 then shows "Model not
\* found", calls no encoder and no classifier, and shows no decision.
C2_DamagedFilesGiveUnavailable ==
    (\E k \in DOMAIN files : files[k] # "ok")
        => /\ artifacts.state = "unavailable"
           /\ artifacts.encoders = NoEncoders /\ artifacts.target = NoTarget
           /\ run = NoRun
           /\ page.banner = "none"
           /\ (ss.step = 5 /\ ~pending) => page.error = "model_not_found"

\* C3: when the education string or the self_employed string is not in its
\* encoder table, the lookup fails: no code is put in its place, predict and
\* predict_proba are not called in that run, and the page shows the error.
C3_UnknownCategoryFails ==
    LET unknownEdu == run.eduLookup /\ run.eduArg \notin Known(artifacts.encoders.education)
        unknownEmp == run.empLookup /\ run.empArg \notin Known(artifacts.encoders.self_employed)
    IN  /\ unknownEdu => ~run.empLookup
        /\ (unknownEdu \/ unknownEmp)
               => /\ run.raised
                  /\ ~run.predict /\ ~run.proba /\ ~run.decode
                  /\ run.X = <<>>
                  /\ page = [BlankPage EXCEPT !.error = "exception"]

C3_Witness ==
    /\ run.empLookup
    /\ run.empArg = Yes
    /\ run.empArg \notin Known(artifacts.encoders.self_employed)
    /\ page.error = "exception"

\* C4: whenever the classifier is called, its row has the eleven columns in
\* the order no_of_dependents, education, self_employed, income_annum,
\* loan_amount, loan_term, cibil_score, residential_assets_value,
\* commercial_assets_value, luxury_assets_value, bank_asset_value;
\* education and self_employed hold the codes of their encoder tables and
\* the other nine hold the session's values of their form fields.
C4_FeatureRow ==
    run.predict =>
        /\ Len(run.X) = 11
        /\ \A i \in 1..11 : run.X[i][1] = Columns[i]
        /\ Fed(1) = ss.dependents
        /\ Fed(2) \in 0..(Len(artifacts.encoders.education) - 1)
        /\ artifacts.encoders.education[Fed(2) + 1] = run.eduArg
        /\ Fed(3) \in 0..(Len(artifacts.encoders.self_employed) - 1)
        /\ artifacts.encoders.self_employed[Fed(3) + 1] = run.empArg
        /\ Fed(4) = ss.income
        /\ Fed(5) = ss.loan_amt
        /\ Fed(6) = ss.loan_term
        /\ Fed(7) = ss.cibil
        /\ Fed(8) = ss.residential
        /\ Fed(9) = ss.commercial
        /\ Fed(10) = ss.luxury
        /\ Fed(11) = ss.bank_assets

C4_Witness ==
    /\ run.predict
    /\ Fed(1) = 5 /\ Fed(2) = 1 /\ Fed(3) = 1
    /\ Fed(4) = 0 /\ Fed(5) = -500000
    /\ Fed(8) = -100000 /\ Fed(9) = 200000 /\ Fed(10) = -300000 /\ Fed(11) = 100000

\* C5: index 0 of each radio stands for the first and index 1 for the second
\* of the two strings in lexicographic order (Graduate, Not Graduate; No,
\* Yes), and the string given to the encoder agrees with the label selected
\* on the radio (Salaried: not self-employed; Self-Employed: self-employed).
C5_IndexToCategory ==
    /\ run.eduLookup =>
           /\ run.eduArg = SortLex({Graduate, NotGraduate})[ss.education + 1]
           /\ run.eduArg = Words(radio.education)
    /\ run.empLookup =>
           /\ run.empArg = SortLex({No, Yes})[ss.employed + 1]
           /\ Words(radio.employed) = Salaried => run.empArg = No
           /\ Words(radio.employed) = SelfEmployed => run.empArg = Yes

C5_Witness ==
    /\ run.empLookup
    /\ run.eduArg = NotGraduate
    /\ run.empArg = Yes
    /\ Words(radio.employed) = SelfEmployed

\* C6: whenever the classifier is called, the profile is within the data
\* model: dependents, income, loan amount and the four asset values are not
\* negative, the term is in 1..30 and the credit score in 300..900.
C6_ProfileInRange ==
    run.predict =>
        /\ Fed(1) >= 0
        /\ Fed(4) >= 0
        /\ Fed(5) >= 0
        /\ Fed(6) \in 1..30
        /\ Fed(7) \in 300..900
        /\ Fed(8) >= 0 /\ Fed(9) >= 0 /\ Fed(10) >= 0 /\ Fed(11) >= 0

\* C7: APPROVED is shown exactly when the decoded label, trimmed, is
\* "Approved"; REJECTED is shown only when the decoded label, trimmed, is
\* "Rejected".
C7_BannerFollowsLabel ==
    /\ page.banner = "APPROVED"
           <=> (run.hasStatus /\ artifacts.target.strings /\ Strip(run.status) = Approved)
    /\ page.banner = "REJECTED"
           => (run.hasStatus /\ artifacts.target.strings /\ Strip(run.status) = Rejected)

\* C8: for a probability row with entries in [0, 1], the confidence of a
\* successful inference is the row's maximum, as a percentage (shown with one
\* decimal): it is within 0%..100%, and at least 50% for two classes that sum
\* to 1.
C8_ConfidenceIsMax ==
    LET row == run.prob
        sum == IF Len(row) = 2 THEN row[1] + row[2] ELSE 0
    IN  /\ (run.hasStatus /\ ~run.raised) => page.metric # -1
        /\ (page.metric # -1 /\ \A i \in 1..Len(row) : row[i] \in 0..ProbScale)
               => /\ \E i \in 1..Len(row) : run.conf = 100 * row[i]
                  /\ \A i \in 1..Len(row) : run.conf >= 100 * row[i]
                  /\ run.conf \in 0..(100 * ProbScale)
                  /\ 2 * (page.metric * ProbScale - 10 * run.conf) \in (-ProbScale)..ProbScale
                  /\ page.metric \in 0..1000
                  /\ (Len(row) = 2 /\ sum = ProbScale) => page.metric >= 500

C8_Witness ==
    /\ page.metric = 667
    /\ run.prob = <<3333, 6667>>
    /\ page.banner = "APPROVED"

\* C9: the encoders and the classifier are called once for each click on
\* Submit, and not again until the next one; a click on Start New
\* Application causes no inference.
C9_OneInferencePerSubmit == inferences <= 1

\* C10: session_state.step is always in 1..5; it grows by one only from steps
\* 1 to 4 (next_step), falls by one only from steps 2 to 4 (prev_step), and
\* the only other change is from 5 to 1 (restart).
C10_StepStaysInWizard ==
    /\ [](artifacts.state # "raised" => ss.step \in 1..5)
    /\ [][ss'.step # ss.step =>
              \/ ss.step \in 1..4 /\ ss'.step = ss.step + 1
              \/ ss.step \in 2..4 /\ ss'.step = ss.step - 1
              \/ ss.step = 5 /\ ss'.step = 1]_vars

C10_Witness ==
    /\ artifacts.state # "raised"
    /\ ss.step = 1
    /\ pending
    /\ page.error = "model_not_found"

====
